---- MODULE Spec2Model ----
(***************************************************************************)
(* State-machine model of bot.py: the processed-post ledger                *)
(* (ProcessedPostsManager), the forum client (LolzAPI), the link extractor *)
(* (TelegramLinkExtractor) and the bot (TelegramStarsBot): the reaction    *)
(* sender, the per-post handler, the backfill and the polling loop.        *)
(* The program is sequential; pc is the position of its single thread of   *)
(* control.  The forum, the messaging client, the file system and the      *)
(* operator are the environment: their answers are chosen with \E.         *)
(***************************************************************************)
EXTENDS Integers, Sequences, FiniteSets, TLC

(* ---------------------------- bounds ----------------------------------- *)
\* largest configured max_retries that is explored
MaxRetries == 2
\* largest wait duration carried by a FloodWait error
MaxFlood == 1
\* largest number of configured reply templates
MaxTemplates == 1

(* ------------------------- program constants --------------------------- *)
\* Python's None (a missing option, a missing post field, message_id=None)
None == -1
\* the margin added to the FloodWait duration
FloodMargin == 2
\* the base of the linear backoff between generic failures
RetryBase == 3
\* the pause between two links of one post
LinkPause == 1
\* api_delay and check_interval as written by the setup wizard
ApiDelay == 5
CheckInterval == 30

(* ----------------------------- the forum ------------------------------- *)
\* A post body is a sequence of fragments.  kind "url" is a bare t.me link,
\* "media" a [MEDIA=telegram] tag, "data" a data-telegram-post attribute,
\* "text" anything else.  msg = None: the fragment carries no message index.
Frag(k, c, m) == [kind |-> k, chan |-> c, msg |-> m]

\* The tracked thread, newest post first (order=post_date_reverse).
\* body = <<>> is an absent/empty body.
Thread ==
  << [post_id |-> 2, body |-> << Frag("url", "a", 7), Frag("media", "a", 7),
                                 Frag("url", "b", None) >>],
     [post_id |-> None, body |-> << Frag("url", "a", 7) >>],
     [post_id |-> 1, body |-> << Frag("text", "x", None),
                                 Frag("data", "c", None) >>] >>

\* posts per page of GET /posts
PageSize == 2

NumPages == (Len(Thread) + PageSize - 1) \div PageSize

Ids == { Thread[i].post_id : i \in 1..Len(Thread) } \ {None}

NoPost == [post_id |-> None, body |-> << >>]

Min(a, b) == IF a < b THEN a ELSE b

\* page p of the thread (empty beyond the last page)
Page(p) ==
  SubSeq(Thread, (p - 1) * PageSize + 1, Min(p * PageSize, Len(Thread)))

RECURSIVE Pages(_, _)
\* the concatenation of pages from..to
Pages(from, to) ==
  IF from > to THEN << >> ELSE Page(from) \o Pages(from + 1, to)

\* an iteration that forgets to reverse
ReversedForgotten(s) == s

\* reversed(posts)
Reversed(s) == [i \in 1..Len(s) |-> s[Len(s) + 1 - i]]

(* ------------------------- TelegramLinkExtractor ----------------------- *)
\* one canonical link "https://t.me/<chan>[/<msg>]" as its path segments
Canon(c, m) == IF m = None THEN << c >> ELSE << c, m >>

\* does a pattern of extract() match the fragment?  The data-attribute
\* pattern requires a message index, the two others take it as optional.
Matches(f) ==
  \/ f.kind \in {"url", "media"}
  \/ f.kind = "data" /\ f.msg # None

\* extract(): the set of canonical links of the body
Extract(body) ==
  { Canon(body[i].chan, body[i].msg) : i \in { j \in 1..Len(body) : Matches(body[j]) } }

\* parse(): canonical link -> (channel, optional message id)
Parse(link) ==
  [channel |-> link[1],
   message_id |-> IF Len(link) >= 2 THEN link[2] ELSE None]

(* ------------------------------- LolzAPI ------------------------------- *)
HttpResponses ==
  {"ok", "flood403", "http429", "httpError", "clientError", "otherError"}

\* how many HTTP answers the forum has ready for one logical request
MaxAnswers == 3

\* an exchange that retries a flooded request whether or not it is a retry
ExchangeAlwaysRetry(r, is_retry) ==
  CASE r = "ok" -> "data"
    [] r = "flood403" -> "retry"
    [] r = "otherError" -> "raise"
    [] OTHER -> "none"

\* one HTTP exchange of _request with is_retry given: "data" (status 200),
\* "retry" (403 flood, first try only), "none" (429, other status,
\* aiohttp.ClientError) or "raise" (an exception that is not a ClientError)
Exchange(r, is_retry) ==
  CASE r = "ok" -> "data"
    [] r = "flood403" /\ ~is_retry -> "retry"
    [] r = "otherError" -> "raise"
    [] OTHER -> "none"

\* the asyncio.sleep of one exchange: 3 s before the retry of a flooded
\* request, 10 s after a 429, none otherwise
Pause(r, is_retry) ==
  IF r = "flood403" /\ ~is_retry THEN << 3 >>
  ELSE IF r = "http429" THEN << 10 >>
  ELSE << >>

\* _request(is_retry) against a forum that gives the answers of `answers`,
\* one per HTTP request issued: result is what the caller gets, http the
\* number of HTTP requests issued, sleeps the sleeps made, in order.  The
\* flooded first try calls _request again with is_retry=True.
RECURSIVE RequestFrom(_, _)
RequestFrom(answers, is_retry) ==
  IF answers = << >>
  THEN [result |-> "none", http |-> 0, sleeps |-> << >>]
  ELSE LET r == Head(answers)
           e == Exchange(r, is_retry)
       IN IF e = "retry"
          THEN LET again == RequestFrom(Tail(answers), TRUE)
               IN [result |-> again.result, http |-> 1 + again.http,
                   sleeps |-> Pause(r, is_retry) \o again.sleeps]
          ELSE [result |-> e, http |-> 1, sleeps |-> Pause(r, is_retry)]

\* _request as its callers use it: r1 answers the request, r2 answers its
\* retry if there is one
Request(r1, r2) == RequestFrom(<< r1, r2 >>, FALSE)

(* ------------------------ ProcessedPostsManager ------------------------ *)
\* the ledger file: absent, a complete JSON array, or a truncated /
\* partially written file that json.load rejects
NoFile == [state |-> "missing", ids |-> {}]
Partial == [state |-> "partial", ids |-> {}]
Stored(s) == [state |-> "ok", ids |-> s]

\* a _load that never reads the file
LoadEmpty(file) == {}

\* _load
Load(file) == IF file.state = "ok" THEN file.ids ELSE {}

\* an is_processed that never finds the id
IsProcessedNever(ledger, post_id) == FALSE

\* is_processed
IsProcessed(ledger, post_id) == post_id \in ledger

\* `not post_id`
Falsy(x) == x = None \/ x = 0

(* ------------------------------- state --------------------------------- *)
VARIABLES
  pc,                   \* position of the single thread of control
  cfg,                  \* Config: the options read from config.json
  client,               \* the messaging client: does it have send_paid_reaction
  processed_posts,      \* ProcessedPostsManager.processed_posts
  file,                 \* the ledger file processed_posts.json
  start_page,           \* TelegramStarsBot.start_page
  posts,                \* _main_loop: the posts fetched in this cycle
  idx,                  \* _main_loop: index of the next post in reversed(posts)
  post,                 \* _process_single_post: the post being handled
  links,                \* _process_single_post: links not yet iterated
  successful_reactions, \* _process_single_post: successful sends so far
  channel,              \* send_stars_reaction: argument
  message_id,           \* send_stars_reaction: argument, then resolved id
  attempt,              \* send_stars_reaction: loop variable
  exc,                  \* the exception being handled, with its wait duration
  ret,                  \* return value of the last send_stars_reaction
  arg,                  \* the ids passed to the ledger call in progress
  caller,               \* who called _save: "mark" or "bulk"
  slept,                \* duration of the most recent asyncio.sleep
  calls,                \* messaging-client calls of the current send, in order
  nSend,                \* send_stars_reaction calls of the current handler run
  nQuery,               \* comment queries of the current handler run
  nComment,             \* create_comment calls of the current handler run
  nMark,                \* mark_processed calls of the current handler run
  everPassed,           \* ids ever passed to mark_processed/add_existing_posts
  durable,              \* ids whose mark/add call has returned normally
  commented,            \* does the forum hold a comment on the post queried
  dispatched,           \* ids the sender was invoked for in an earlier handler run
  rq                    \* a _request call: its HTTP answers and its outcome

vars ==
  << pc, cfg, client, processed_posts, file, start_page, posts, idx, post,
     links, successful_reactions, channel, message_id, attempt, exc, ret,
     arg, caller, slept, calls, nSend, nQuery, nComment, nMark, everPassed,
     durable, commented, dispatched, rq >>

\* the variables of the main loop and of start()
loopVars == << start_page, posts, idx >>
\* the locals of _process_single_post
postVars == << post, links, successful_reactions >>
\* the locals of send_stars_reaction
sendVars == << channel, message_id, attempt, exc, ret, calls >>
\* the ledger and what is recorded about it
ledgerVars == << processed_posts, file, arg, caller, everPassed, durable >>
\* per-handler-run call counters
countVars == << nSend, nQuery, nComment, nMark >>
\* what never changes during a run (no _request call is singled out in it)
envVars == << cfg, client, rq >>

NoExc == [kind |-> "none", x |-> 0]

\* Config.__getattr__ returns None for an option missing from config.json
Configs ==
  [ enable_reply : BOOLEAN,
    skip_posts_with_comments : BOOLEAN,
    max_retries : {None} \cup (1..MaxRetries),
    reply_templates : 0..MaxTemplates ]

\* TelegramStarsBot.__init__ on a fresh installation: no ledger file yet
Boot ==
  /\ pc = "menu"
  /\ cfg \in Configs
  /\ client \in [has_paid_reaction : BOOLEAN]
  /\ processed_posts = Load(NoFile)
  /\ file = NoFile
  /\ start_page = 1
  /\ posts = << >>
  /\ idx = 1
  /\ post = NoPost
  /\ links = {}
  /\ successful_reactions = 0
  /\ channel = ""
  /\ message_id = None
  /\ attempt = 0
  /\ exc = NoExc
  /\ ret = FALSE
  /\ arg = {}
  /\ caller = "none"
  /\ slept = 0
  /\ calls = << >>
  /\ nSend = 0
  /\ nQuery = 0
  /\ nComment = 0
  /\ nMark = 0
  /\ everPassed = {}
  /\ durable = {}
  /\ commented = FALSE
  /\ dispatched = {}

\* a _request call that has not returned yet
Pending == [result |-> "pending", http |-> 0, sleeps |-> << >>]

\* no _request call is singled out
NoRq == [answers |-> << >>, out |-> Pending]

Init ==
  /\ Boot
  /\ rq = NoRq

(* ------------------------ ProcessedPostsManager ------------------------ *)
\* a mark_processed that replaces the set by the new id
MarkProcessedReplace(post_id) ==
  /\ processed_posts' = {post_id}
  /\ arg' = {post_id}
  /\ caller' = "mark"
  /\ everPassed' = everPassed \cup {post_id}
  /\ nMark' = nMark + 1
  /\ pc' = "save_open"
  /\ UNCHANGED << file, durable >>

\* mark_processed(post_id), up to its call of _save
MarkProcessed(post_id) ==
  /\ processed_posts' = processed_posts \cup {post_id}
  /\ arg' = {post_id}
  /\ caller' = "mark"
  /\ everPassed' = everPassed \cup {post_id}
  /\ nMark' = nMark + 1
  /\ pc' = "save_open"
  /\ UNCHANGED << file, durable >>

\* add_existing_posts(post_ids), up to its call of _save
AddExistingPosts(post_ids) ==
  /\ processed_posts' = processed_posts \cup post_ids
  /\ arg' = post_ids
  /\ caller' = "bulk"
  /\ everPassed' = everPassed \cup post_ids
  /\ pc' = "save_open"
  /\ UNCHANGED << file, durable, nMark >>

\* where an exception raised in _save lands: in the polling loop's handler
\* through _process_single_post, or in main() through parse_existing_posts
\* ("main_end": control is back in main(), which logs and ends the process)
Raised(who) == IF who = "mark" THEN "psp_exc" ELSE "main_end"

\* where _save returns to
Returned(who) == IF who = "mark" THEN "psp_ret" ELSE "backfill_done"

\* _save, open(file_path, 'w'): the file is truncated, or open fails
SaveOpen ==
  /\ pc = "save_open"
  /\ \/ /\ file' = Partial
        /\ pc' = "save_dump"
     \/ /\ file' = file
        /\ pc' = Raised(caller)
  /\ UNCHANGED << envVars, commented, dispatched, loopVars, postVars, sendVars, countVars, slept,
                  processed_posts, arg, caller, everPassed, durable >>

\* _save, json.dump and close: the whole set is written, or the write fails
SaveDump ==
  /\ pc = "save_dump"
  /\ \/ /\ file' = Stored(processed_posts)
        /\ durable' = durable \cup arg
        /\ pc' = Returned(caller)
     \/ /\ file' = file
        /\ durable' = durable
        /\ pc' = Raised(caller)
  /\ UNCHANGED << envVars, commented, dispatched, loopVars, postVars, sendVars, countVars, slept,
                  processed_posts, arg, caller, everPassed >>

(* --------------------- TelegramStarsBot: the sender --------------------- *)
\* the wait durations a FloodWait error may carry
FloodWaits == [kind : {"FloodWait"}, x : 1..MaxFlood]
\* any other exception of the messaging client
GenericError == [kind |-> "Exception", x |-> 0]
\* the id of the most recent message of a channel
HistoryIds == {8}

Call(op, out) == [op |-> op, out |-> out]

\* send_stars_reaction returns value b to _process_single_post
SsrReturn(b) ==
  /\ ret' = b
  /\ pc' = "ssr_ret"

\* a loop that runs one attempt too many
NextAttemptOffByOne ==
  IF attempt < cfg.max_retries
  THEN /\ attempt' = attempt + 1
       /\ pc' = "ssr_try"
       /\ ret' = ret
  ELSE /\ attempt' = attempt
       /\ SsrReturn(FALSE)

\* the for loop advances: the next attempt, or the loop is exhausted and
\* the function returns False
NextAttempt ==
  IF attempt + 1 < cfg.max_retries
  THEN /\ attempt' = attempt + 1
       /\ pc' = "ssr_try"
       /\ ret' = ret
  ELSE /\ attempt' = attempt
       /\ SsrReturn(FALSE)

\* entry of send_stars_reaction: the capability check, then range(max_retries)
SsrEntry ==
  /\ pc = "ssr_entry"
  /\ IF ~client.has_paid_reaction
     THEN SsrReturn(FALSE)
     ELSE IF cfg.max_retries = None
          THEN pc' = "ssr_outer" /\ ret' = ret
          ELSE IF cfg.max_retries <= 0
               THEN SsrReturn(FALSE)
               ELSE pc' = "ssr_try" /\ ret' = ret
  /\ attempt' = 0
  /\ UNCHANGED << envVars, commented, dispatched, loopVars, postVars, ledgerVars, countVars, slept,
                  channel, message_id, exc, calls >>

\* a resolution that treats an empty history as one more failed attempt
SsrTryEmptyRetries ==
  /\ pc = "ssr_try"
  /\ IF message_id # None
     THEN /\ pc' = "ssr_react"
          /\ UNCHANGED << message_id, exc, ret, calls >>
     ELSE \/ \E m \in HistoryIds :
               /\ message_id' = m
               /\ calls' = Append(calls, Call("history", "ok"))
               /\ pc' = "ssr_react"
               /\ UNCHANGED << exc, ret >>
          \/ /\ exc' = GenericError
             /\ calls' = Append(calls, Call("history", "empty"))
             /\ pc' = "ssr_generic"
             /\ UNCHANGED << message_id, ret >>
  /\ UNCHANGED << envVars, commented, dispatched, loopVars, postVars, ledgerVars,
                  countVars, slept, channel, attempt >>

\* top of the loop body: resolve message_id from the channel history when
\* the link had no index
SsrTry ==
  /\ pc = "ssr_try"
  /\ IF message_id # None
     THEN /\ pc' = "ssr_react"
          /\ UNCHANGED << message_id, exc, ret, calls >>
     ELSE \/ \E m \in HistoryIds :
               /\ message_id' = m
               /\ calls' = Append(calls, Call("history", "ok"))
               /\ pc' = "ssr_react"
               /\ UNCHANGED << exc, ret >>
          \/ /\ calls' = Append(calls, Call("history", "empty"))
             /\ SsrReturn(FALSE)
             /\ UNCHANGED << message_id, exc >>
          \/ \E e \in FloodWaits :
               /\ exc' = e
               /\ calls' = Append(calls, Call("history", "flood"))
               /\ pc' = "ssr_flood"
               /\ UNCHANGED << message_id, ret >>
          \/ /\ exc' = GenericError
             /\ calls' = Append(calls, Call("history", "error"))
             /\ pc' = "ssr_generic"
             /\ UNCHANGED << message_id, ret >>
  /\ UNCHANGED << envVars, commented, dispatched, loopVars, postVars, ledgerVars, countVars, slept,
                  channel, attempt >>

\* the call of client.send_paid_reaction
SsrReact ==
  /\ pc = "ssr_react"
  /\ \/ /\ calls' = Append(calls, Call("react", "ok"))
        /\ SsrReturn(TRUE)
        /\ exc' = exc
     \/ \E e \in FloodWaits :
          /\ exc' = e
          /\ calls' = Append(calls, Call("react", "flood"))
          /\ pc' = "ssr_flood"
          /\ ret' = ret
     \/ /\ exc' = GenericError
        /\ calls' = Append(calls, Call("react", "error"))
        /\ pc' = "ssr_generic"
        /\ ret' = ret
  /\ UNCHANGED << envVars, commented, dispatched, loopVars, postVars, ledgerVars, countVars, slept,
                  channel, message_id, attempt >>

\* a FloodWait handler that repeats the attempt it interrupted
SsrFloodWaitSameAttempt ==
  /\ pc = "ssr_flood"
  /\ slept' = exc.x + FloodMargin
  /\ pc' = "ssr_try"
  /\ exc' = NoExc
  /\ UNCHANGED << envVars, commented, dispatched, loopVars, postVars, ledgerVars, countVars,
                  channel, message_id, attempt, ret, calls >>

\* except FloodWait: sleep e.x + 2, then the loop goes on
SsrFloodWait ==
  /\ pc = "ssr_flood"
  /\ slept' = exc.x + FloodMargin
  /\ NextAttempt
  /\ exc' = NoExc
  /\ UNCHANGED << envVars, commented, dispatched, loopVars, postVars, ledgerVars, countVars,
                  channel, message_id, calls >>

\* a generic handler that repeats the attempt it interrupted
SsrGenericSameAttempt ==
  /\ pc = "ssr_generic"
  /\ slept' = RetryBase * (attempt + 1)
  /\ pc' = "ssr_try"
  /\ exc' = NoExc
  /\ UNCHANGED << envVars, commented, dispatched, loopVars, postVars, ledgerVars, countVars,
                  channel, message_id, attempt, ret, calls >>

\* except Exception: linear backoff unless it was the last attempt
SsrGeneric ==
  /\ pc = "ssr_generic"
  /\ slept' = IF attempt < cfg.max_retries - 1
              THEN RetryBase * (attempt + 1)
              ELSE slept
  /\ NextAttempt
  /\ exc' = NoExc
  /\ UNCHANGED << envVars, commented, dispatched, loopVars, postVars, ledgerVars, countVars,
                  channel, message_id, calls >>

\* a sender without the outer handler: the exception reaches the caller
SsrOuterExceptPropagates ==
  /\ pc = "ssr_outer"
  /\ pc' = "psp_exc"
  /\ UNCHANGED << envVars, commented, dispatched, loopVars, postVars, ledgerVars, countVars, slept,
                  channel, message_id, attempt, exc, ret, calls >>

\* the outer except Exception: anything raised outside the inner try
SsrOuterExcept ==
  /\ pc = "ssr_outer"
  /\ SsrReturn(FALSE)
  /\ UNCHANGED << envVars, commented, dispatched, loopVars, postVars, ledgerVars, countVars, slept,
                  channel, message_id, attempt, exc, calls >>

(* ------------------ TelegramStarsBot: the post handler ------------------ *)
\* _process_single_post, entry: the dedupe check
PspEntry ==
  /\ pc = "psp_entry"
  /\ pc' = IF Falsy(post.post_id) \/ IsProcessed(processed_posts, post.post_id)
           THEN "psp_ret"
           ELSE IF cfg.skip_posts_with_comments THEN "psp_comments"
                ELSE "psp_body"
  /\ UNCHANGED << envVars, commented, dispatched, loopVars, postVars, sendVars, ledgerVars,
                  countVars, slept >>

\* has_comments(post_id): GET /posts/comments; a post that has comments is
\* marked and the handler returns.  has: the answer lists a comment.
PspHasComments ==
  /\ pc = "psp_comments"
  /\ nQuery' = nQuery + 1
  /\ \E r1 \in HttpResponses, r2 \in HttpResponses, has \in BOOLEAN :
       LET answer == Request(r1, r2)
       IN /\ commented' = has
          /\ IF answer.result = "raise"
             THEN /\ pc' = "psp_exc"
                  /\ UNCHANGED << ledgerVars, nMark >>
             ELSE IF answer.result = "data" /\ has
                  THEN MarkProcessed(post.post_id)
                  ELSE /\ pc' = "psp_body"
                       /\ UNCHANGED << ledgerVars, nMark >>
  /\ UNCHANGED << envVars, dispatched, loopVars, postVars, sendVars, nSend,
                  nComment, slept >>

\* a handler that does not stop on an empty link list
PspBodyNoLinkCheck ==
  /\ pc = "psp_body"
  /\ IF post.body = << >>
     THEN /\ MarkProcessed(post.post_id)
          /\ UNCHANGED << links, successful_reactions >>
     ELSE /\ links' = Extract(post.body)
          /\ successful_reactions' = 0
          /\ pc' = "psp_links"
          /\ UNCHANGED << ledgerVars, nMark >>
  /\ UNCHANGED << envVars, commented, dispatched, loopVars, post, sendVars, nSend, nQuery, nComment,
                  slept >>

\* the body check and the link extraction
PspBody ==
  /\ pc = "psp_body"
  /\ IF post.body = << >> \/ Extract(post.body) = {}
     THEN /\ MarkProcessed(post.post_id)
          /\ UNCHANGED << links, successful_reactions >>
     ELSE /\ links' = Extract(post.body)
          /\ successful_reactions' = 0
          /\ pc' = "psp_links"
          /\ UNCHANGED << ledgerVars, nMark >>
  /\ UNCHANGED << envVars, commented, dispatched, loopVars, post, sendVars, nSend, nQuery, nComment,
                  slept >>

\* a reply condition that forgets the success count
ShouldReplyIgnoringCount == cfg.enable_reply = TRUE

\* `successful_reactions > 0 and self.config.enable_reply`
ShouldReply == successful_reactions > 0 /\ cfg.enable_reply = TRUE

\* for link in links: the list comes from a set, so its order is arbitrary.
\* After the last link: the reply decision.
PspLinks ==
  /\ pc = "psp_links"
  /\ IF links # {}
     THEN /\ \E l \in links :
               /\ links' = links \ {l}
               /\ channel' = Parse(l).channel
               /\ message_id' = Parse(l).message_id
          /\ attempt' = 0
          /\ exc' = NoExc
          /\ calls' = << >>
          /\ nSend' = nSend + 1
          /\ pc' = "ssr_entry"
          /\ UNCHANGED << ret, slept, ledgerVars, nMark >>
     ELSE /\ IF ShouldReply
             THEN /\ slept' = ApiDelay
                  /\ pc' = "psp_reply"
                  /\ UNCHANGED << ledgerVars, nMark >>
             ELSE /\ MarkProcessed(post.post_id)
                  /\ slept' = slept
          /\ UNCHANGED << links, sendVars, nSend >>
  /\ UNCHANGED << envVars, commented, dispatched, loopVars, post, successful_reactions, nQuery,
                  nComment >>

\* send_stars_reaction has returned: count the success, pause, next link
PspAfterSend ==
  /\ pc = "ssr_ret"
  /\ successful_reactions' = IF ret THEN successful_reactions + 1
                             ELSE successful_reactions
  /\ slept' = LinkPause
  /\ pc' = "psp_links"
  /\ UNCHANGED << envVars, commented, dispatched, loopVars, post, links, sendVars, ledgerVars,
                  countVars >>

\* random.choice(reply_templates) raises on an empty list; otherwise
\* create_comment is called and its result ignored, unless _request raises
PspReply ==
  /\ pc = "psp_reply"
  /\ IF cfg.reply_templates = 0
     THEN /\ pc' = "psp_exc"
          /\ UNCHANGED << ledgerVars, countVars >>
     ELSE /\ nComment' = nComment + 1
          /\ \E r1 \in HttpResponses, r2 \in HttpResponses :
               IF Request(r1, r2).result = "raise"
               THEN /\ pc' = "psp_exc"
                    /\ UNCHANGED << ledgerVars, nMark >>
               ELSE MarkProcessed(post.post_id)
          /\ UNCHANGED << nSend, nQuery >>
  /\ UNCHANGED << envVars, commented, dispatched, loopVars, postVars, sendVars, slept >>

(* -------------------- TelegramStarsBot: loop and modes ------------------ *)
\* a handler run is over: remember the post if the sender was invoked for it
HandlerRunOver ==
  dispatched' = IF nSend > 0 THEN dispatched \cup {post.post_id}
                ELSE dispatched

\* the locals of a handler run and of a send, as they are before a run
FreshLocals ==
  /\ links' = {}
  /\ successful_reactions' = 0
  /\ channel' = ""
  /\ message_id' = None
  /\ attempt' = 0
  /\ exc' = NoExc
  /\ ret' = FALSE
  /\ calls' = << >>
  /\ nSend' = 0
  /\ nQuery' = 0
  /\ nComment' = 0
  /\ nMark' = 0
  /\ commented' = FALSE

\* `post.get("post_id")` is truthy
PostIds(ps) ==
  { ps[i].post_id : i \in { j \in 1..Len(ps) : ~Falsy(ps[j].post_id) } }

\* start(): the operator's choice.  A first login only creates the session
\* and returns; "2" is the backfill; otherwise monitoring from start_page.
Menu ==
  /\ pc = "menu"
  /\ \/ /\ pc' = "main_end"
        /\ start_page' = start_page
     \/ /\ pc' = "backfill"
        /\ start_page' = start_page
     \/ \E p \in 1..NumPages :
          /\ start_page' = p
          /\ pc' = "loop_fetch"
  /\ UNCHANGED << envVars, commented, dispatched, posts, idx, postVars, sendVars, ledgerVars,
                  countVars, slept >>

\* parse_existing_posts: get_all_thread_posts reads pages until one comes
\* back empty or without data (k pages were read), or _request raises;
\* then add_existing_posts on the truthy ids
Backfill ==
  /\ pc = "backfill"
  /\ \/ /\ pc' = "main_end"
        /\ UNCHANGED << ledgerVars >>
     \/ \E k \in 0..NumPages :
          IF Pages(1, k) # << >>
          THEN AddExistingPosts(PostIds(Pages(1, k)))
          ELSE /\ pc' = "backfill_done"
               /\ UNCHANGED << ledgerVars >>
  /\ UNCHANGED << envVars, commented, dispatched, loopVars, postVars, sendVars, countVars, slept >>

\* _main_loop: get_thread_posts(thread, start_page) reads pages from
\* start_page until one comes back empty or without data, or raises
LoopFetch ==
  /\ pc = "loop_fetch"
  /\ \/ /\ pc' = "loop_exc"
        /\ posts' = << >>
     \/ \E k \in (start_page - 1)..NumPages :
          /\ posts' = Pages(start_page, k)
          /\ pc' = "loop_iter"
  /\ idx' = 1
  /\ UNCHANGED << envVars, commented, dispatched, start_page, postVars, sendVars, ledgerVars,
                  countVars, slept >>

\* for post in reversed(posts): hand the next post to the handler; after
\* the last one (or when nothing was fetched) sleep check_interval
LoopIter ==
  /\ pc \in {"loop_iter", "psp_ret"}
  /\ IF idx <= Len(posts)
     THEN /\ post' = Reversed(posts)[idx]
          /\ idx' = idx + 1
          /\ pc' = "psp_entry"
          /\ UNCHANGED << posts, slept >>
     ELSE /\ post' = NoPost
          /\ idx' = 1
          /\ posts' = << >>
          /\ slept' = CheckInterval
          /\ pc' = "loop_fetch"
  /\ FreshLocals
  /\ HandlerRunOver
  /\ UNCHANGED << envVars, start_page, ledgerVars >>

\* a loop whose handler logs and lets the exception go on to main()
LoopExceptReraises ==
  /\ pc \in {"loop_exc", "psp_exc"}
  /\ post' = NoPost
  /\ idx' = 1
  /\ posts' = << >>
  /\ slept' = slept
  /\ pc' = "main_end"
  /\ FreshLocals
  /\ HandlerRunOver
  /\ UNCHANGED << envVars, start_page, ledgerVars >>

\* except Exception in _main_loop: log, sleep check_interval, next cycle
LoopExcept ==
  /\ pc \in {"loop_exc", "psp_exc"}
  /\ post' = NoPost
  /\ idx' = 1
  /\ posts' = << >>
  /\ slept' = CheckInterval
  /\ pc' = "loop_fetch"
  /\ FreshLocals
  /\ HandlerRunOver
  /\ UNCHANGED << envVars, start_page, ledgerVars >>

\* the process is gone: nothing of its memory remains
ProcessGone ==
  /\ processed_posts' = {}
  /\ arg' = {}
  /\ caller' = "none"
  /\ start_page' = 1
  /\ posts' = << >>
  /\ idx' = 1
  /\ post' = NoPost
  /\ slept' = 0
  /\ dispatched' = {}
  /\ FreshLocals

\* the positions of _main_loop and of what it calls
MonitorPcs ==
  {"loop_fetch", "loop_iter", "loop_exc", "psp_entry", "psp_comments",
   "psp_body", "psp_links", "psp_reply", "psp_ret", "psp_exc", "ssr_entry",
   "ssr_try", "ssr_react", "ssr_flood", "ssr_generic", "ssr_outer", "ssr_ret",
   "save_open", "save_dump"}

\* Ctrl+C during monitoring: KeyboardInterrupt (or the cancellation that
\* asyncio.run makes of it) ends _main_loop wherever it is; its locals are
\* gone, the ledger is as it was
Interrupt ==
  /\ pc \in MonitorPcs
  /\ caller # "bulk"   \* _save called by the backfill is not in the loop
  /\ pc' = "interrupted"
  /\ post' = NoPost
  /\ idx' = 1
  /\ posts' = << >>
  /\ FreshLocals
  /\ HandlerRunOver
  /\ UNCHANGED << envVars, start_page, ledgerVars, slept >>

\* start() returns (first login, backfill done, loop interrupted) or
\* main() logs the exception that reached it: the process ends
Exit ==
  /\ pc \in {"backfill_done", "main_end", "interrupted"}
  /\ pc' = "exited"
  /\ ProcessGone
  /\ UNCHANGED << envVars, file, everPassed, durable >>

\* the process is killed (power loss, kill -9) at any point of a run
Crash ==
  /\ pc \notin {"crashed", "exited"}
  /\ pc' = "crashed"
  /\ ProcessGone
  /\ UNCHANGED << envVars, file, everPassed, durable >>

\* the next start of the program: ProcessedPostsManager.__init__ loads
\* the ledger from the file
Start ==
  /\ pc \in {"crashed", "exited"}
  /\ processed_posts' = Load(file)
  /\ pc' = "menu"
  /\ UNCHANGED << envVars, commented, dispatched, loopVars, postVars, sendVars, countVars, slept,
                  file, arg, caller, everPassed, durable >>

Next ==
  \/ Menu
  \/ Backfill
  \/ LoopFetch
  \/ LoopIter
  \/ LoopExcept
  \/ PspEntry
  \/ PspHasComments
  \/ PspBody
  \/ PspLinks
  \/ PspAfterSend
  \/ PspReply
  \/ SsrEntry
  \/ SsrTry
  \/ SsrReact
  \/ SsrFloodWait
  \/ SsrGeneric
  \/ SsrOuterExcept
  \/ SaveOpen
  \/ SaveDump
  \/ Interrupt
  \/ Exit
  \/ Crash
  \/ Start

Spec == Init /\ [][Next]_vars

(* ------------------------------ properties ------------------------------ *)
\* a step of the running program: the process is not killed or interrupted
\* by it
Alive == pc' \notin {"crashed", "exited", "interrupted"}

\* the positions inside send_stars_reaction
SsrPcs == {"ssr_entry", "ssr_try", "ssr_react", "ssr_flood", "ssr_generic",
           "ssr_outer"}

\* a run of _process_single_post has ended, by return or by exception
HandlerEnded == pc \in {"psp_ret", "psp_exc"}

\* every messaging-client call of the current send was a paid-reaction call
\* that failed with a generic exception
OnlyGenericReactFailures ==
  \A i \in 1..Len(calls) : calls[i] = Call("react", "error")

\* C1: when a run of the post handler on a post with an identifier ends,
\* by return or by exception, the identifier is in the ledger.
C1_MarkedWhenHandlerEnds ==
  (HandlerEnded /\ ~Falsy(post.post_id)) => post.post_id \in processed_posts

\* C2: the handler invoked on a post without identifier, or whose identifier
\* is in the ledger, returns at once: no comment query, no comment creation,
\* no messaging-client call, no send, and the ledger in memory and the ledger
\* file are unchanged.
C2_SkipIsNoOp ==
  [][ ( /\ pc = "psp_entry"
        /\ Alive
        /\ Falsy(post.post_id) \/ post.post_id \in processed_posts )
      => ( /\ pc' = "psp_ret"
           /\ UNCHANGED << processed_posts, file, calls, nSend, nQuery,
                           nComment, nMark >> ) ]_vars

\* the handler returned without doing anything on a post that was in the
\* ledger already
C2_Witness ==
  /\ pc = "psp_ret"
  /\ post.post_id \in processed_posts
  /\ nMark = 0
  /\ file = Stored(processed_posts)

\* C3 as stated: after a FloodWait the sender sleeps d + 2 and repeats the
\* same attempt, the loop variable unchanged.
C3_FloodKeepsSlot ==
  [][ (pc = "ssr_flood" /\ Alive)
      => ( /\ slept' = exc.x + FloodMargin
           /\ attempt' = attempt
           /\ pc' = "ssr_try" ) ]_vars

\* C3 amended: after a FloodWait the sender sleeps d + 2 and the flood-wait
\* has used up its attempt: the next attempt follows if one is left,
\* otherwise the sender returns failure.
C3_FloodConsumesSlot ==
  [][ (pc = "ssr_flood" /\ Alive)
      => ( /\ slept' = exc.x + FloodMargin
           /\ IF attempt + 1 < cfg.max_retries
              THEN attempt' = attempt + 1 /\ pc' = "ssr_try"
              ELSE pc' = "ssr_ret" /\ ret' = FALSE ) ]_vars

\* the second attempt begins after a FloodWait on the paid-reaction call
C3_Witness ==
  /\ pc = "ssr_try"
  /\ attempt = 1
  /\ calls = << Call("react", "flood") >>
  /\ slept = 1 + FloodMargin

\* C4: with the capability present and max_retries = N >= 1, a send whose
\* every client call was a paid-reaction call failing with a generic
\* exception returns False after exactly N such calls.
C4_GenericFailuresUseAllRetries ==
  ( /\ pc = "ssr_ret"
    /\ client.has_paid_reaction
    /\ cfg.max_retries >= 1
    /\ OnlyGenericReactFailures )
  => (Len(calls) = cfg.max_retries /\ ret = FALSE)

\* a send with max_retries = 2 gave up after two generic failures
C4_Witness ==
  /\ pc = "ssr_ret"
  /\ cfg.max_retries = 2
  /\ calls = << Call("react", "error"), Call("react", "error") >>

\* C5: control leaves send_stars_reaction only by returning a boolean to
\* _process_single_post, never by an exception.
C5_SenderNeverRaises ==
  [][ (pc \in SsrPcs /\ Alive)
      => ( /\ pc' \in SsrPcs \cup {"ssr_ret"}
           /\ pc' = "ssr_ret" => ret' \in BOOLEAN ) ]_vars

\* the sender returned False through its outer exception handler
C5_Witness ==
  /\ pc = "ssr_ret"
  /\ ret = FALSE
  /\ client.has_paid_reaction
  /\ cfg.max_retries = None

\* C6: a handler run in which sends were made and none succeeded creates no
\* comment, and when it ends mark_processed was called exactly once and the
\* identifier is in the ledger.
C6_AllFailedStillMarkedOnce ==
  /\ (nSend > 0 /\ successful_reactions = 0) => nComment = 0
  /\ (HandlerEnded /\ nSend > 0 /\ successful_reactions = 0)
       => (nMark = 1 /\ post.post_id \in processed_posts)

\* both sends of the two-link post failed, replying being enabled
C6_Witness ==
  /\ pc = "psp_ret"
  /\ nSend = 2
  /\ successful_reactions = 0
  /\ cfg.enable_reply
  /\ cfg.reply_templates > 0

\* C7: for a post whose body yields no link, the handler never calls the
\* sender, the messaging client or create_comment; the extraction step
\* marks the post, and the post is in the ledger when the handler returns.
C7_NoLinksInv ==
  /\ Extract(post.body) = {} => (nSend = 0 /\ nComment = 0 /\ calls = << >>)
  /\ (pc = "psp_ret" /\ ~Falsy(post.post_id) /\ Extract(post.body) = {})
       => post.post_id \in processed_posts

C7_NoLinksMarkedNoCalls ==
  /\ []C7_NoLinksInv
  /\ [][ (pc = "psp_body" /\ Alive /\ Extract(post.body) = {})
         => ( /\ pc' = "save_open"
              /\ nMark' = nMark + 1
              /\ post.post_id \in processed_posts' ) ]_vars

\* the post without links was new, was marked, and the handler returned
C7_Witness ==
  /\ pc = "psp_ret"
  /\ Extract(post.body) = {}
  /\ nMark = 1
  /\ post.post_id \in processed_posts

\* C8: no step of a running program removes an identifier from the ledger.
C8_LedgerMonotonic ==
  [][ Alive => processed_posts \subseteq processed_posts' ]_vars

\* the second identifier has just been added to a ledger holding the first
C8_Witness ==
  /\ pc = "save_open"
  /\ caller = "mark"
  /\ Cardinality(processed_posts) = 2
  /\ file.state = "ok"
  /\ Cardinality(file.ids) = 1

\* C9: is_processed is false for every identifier never passed to
\* mark_processed/add_existing_posts and true for the identifiers just
\* passed; when a mutating call has returned, the file holds exactly the
\* in-memory set, so a ledger reloaded from it gives the same answers; and
\* a program that has just started answers from the file.
C9_LedgerAnswers ==
  /\ \A id \in Ids : id \notin everPassed => ~IsProcessed(processed_posts, id)
  /\ pc \in {"save_open", "save_dump"}
       => \A id \in arg : IsProcessed(processed_posts, id)
  /\ ((pc = "psp_ret" /\ nMark > 0) \/ (pc = "backfill_done" /\ arg # {}))
       => /\ file = Stored(processed_posts)
          /\ \A id \in Ids :
               IsProcessed(Load(file), id) = IsProcessed(processed_posts, id)
  /\ pc = "menu" => processed_posts = Load(file)

\* after a restart the reloaded ledger holds both identifiers
C9_Witness ==
  /\ pc = "menu"
  /\ processed_posts = Ids
  /\ everPassed = Ids

\* C10: whenever the program has (re)started, the ledger it loaded contains
\* every identifier whose marking had completed: a crash costs at most the
\* post that was being handled.
C10_CrashLosesOnlyInFlight ==
  pc = "menu" => durable \subseteq processed_posts

\* control is in _main_loop or in what it calls
InLoop == pc \in MonitorPcs /\ caller # "bulk"

\* the paid-reaction calls among the client calls of the current send
ReactCalls == { i \in 1..Len(calls) : calls[i].op = "react" }

\* C11: no run of the post handler ends by an exception that reaches the
\* polling loop.
C11_HandlerNeverRaises == pc # "psp_exc"

\* C13: an exception (other than the interrupt) in a cycle makes the loop
\* sleep check_interval and start another cycle; control leaves the loop
\* only by the interrupt (or the death of the process); after the interrupt
\* nothing but the end of the process follows.
C13_LoopEndsOnlyOnInterrupt ==
  [][ /\ (pc \in {"loop_exc", "psp_exc"} /\ Alive)
           => (slept' = CheckInterval /\ pc' = "loop_fetch")
      /\ (InLoop /\ pc' \notin MonitorPcs)
           => pc' \in {"interrupted", "crashed"}
      /\ pc = "interrupted" => pc' \in {"exited", "crashed"} ]_vars

\* a ledger write failed inside a cycle of this run (the file is left
\* partial while the set in memory is not empty) and the loop, having slept,
\* is at the top of another cycle
C13_Witness ==
  /\ pc = "loop_fetch"
  /\ file.state = "partial"
  /\ processed_posts # {}
  /\ slept = CheckInterval

\* C14: the handler is entered only from the loop, between two posts; the
\* first post handed over in a cycle is the last one the API returned, each
\* next one is the one the API returned just before the previous one (so a
\* newer one), and a cycle that ends normally has handed over the first
\* post returned.
C14_OldestToNewest ==
  [][ /\ pc' = "psp_entry" => pc \in {"loop_iter", "psp_ret"}
      /\ (pc = "loop_iter" /\ pc' = "psp_entry") => post' = posts[Len(posts)]
      /\ (pc = "psp_ret" /\ pc' = "psp_entry")
           => \E i \in 2..Len(posts) :
                /\ posts[i] = post
                /\ posts[i - 1] = post'
                /\ \E a \in 1..Len(Thread), b \in 1..Len(Thread) :
                     Thread[a] = post' /\ Thread[b] = post /\ a < b
      /\ (pc = "psp_ret" /\ pc' = "loop_fetch") => post = posts[1] ]_vars

\* the newest of three fetched posts is handed over last
C14_Witness ==
  /\ pc = "psp_entry"
  /\ Len(posts) = 3
  /\ idx = 4
  /\ post = posts[1]

\* C15: when the backfill has completed, every identifier of the thread is
\* in the ledger, and no send and no comment creation was made.
C15_BackfillMarksAll ==
  pc = "backfill_done"
    => (Ids \subseteq processed_posts /\ nSend = 0 /\ nComment = 0)

\* C16: create_comment is called only with a success counted and replying
\* enabled, at most once, after the last send and before mark_processed;
\* and a handler run that ends with a success counted and replying enabled
\* has called it exactly once.
C16_OneCommentIffSuccessAndReply ==
  /\ nComment > 0
       => /\ successful_reactions > 0 /\ cfg.enable_reply
          /\ nComment = 1
          /\ links = {}
          /\ pc \notin SsrPcs \cup {"ssr_ret"}
  /\ pc = "psp_reply" => nMark = 0
  /\ (HandlerEnded /\ successful_reactions > 0 /\ cfg.enable_reply)
       => nComment = 1

\* C17: with the skip option on, once the comment query was made for a post
\* that has a comment on the forum, the post is marked and nothing else is
\* done: no send, no comment creation.
C17_CommentedPostSkipped ==
  (cfg.skip_posts_with_comments /\ commented)
    => /\ nMark = 1
       /\ post.post_id \in processed_posts
       /\ nSend = 0
       /\ nComment = 0
       /\ pc \in {"save_open", "save_dump", "psp_ret", "psp_exc"}

\* C18: an empty channel history ends the send at once: it is the last
\* client call of the send, the send has returned False, and no
\* paid-reaction call was made in it.
C18_EmptyHistoryFailsWithoutReaction ==
  \A i \in 1..Len(calls) :
    calls[i] = Call("history", "empty")
      => /\ i = Len(calls)
         /\ ReactCalls = {}
         /\ pc \notin SsrPcs
         /\ ret = FALSE

\* the send returned after an empty history that followed a failed lookup
C18_Witness ==
  /\ pc = "ssr_ret"
  /\ calls = << Call("history", "error"), Call("history", "empty") >>
  /\ ret = FALSE

(* ------------------------- _request on its own -------------------------- *)
\* one logical request, for every sequence of answers of the forum
ReqInit ==
  /\ Boot
  /\ rq \in [answers : [1..MaxAnswers -> HttpResponses], out : {Pending}]

\* the call of _request(method, endpoint) returns (or raises)
ApplyRequest ==
  /\ rq.out = Pending
  /\ rq' = [rq EXCEPT !.out = RequestFrom(rq.answers, FALSE)]
  /\ UNCHANGED << pc, cfg, client, processed_posts, file, start_page, posts,
                  idx, post, links, successful_reactions, channel, message_id,
                  attempt, exc, ret, arg, caller, slept, calls, nSend, nQuery,
                  nComment, nMark, everPassed, durable, commented,
                  dispatched >>

ReqNext == ApplyRequest

ReqSpec == ReqInit /\ [][ReqNext]_vars

\* C19: a flooded first try makes _request sleep 3 seconds and issue the
\* request once more; a logical request issues one HTTP request, or two
\* exactly when the first answer was the flood 403; the answer to the retry
\* is final, and a flood answer to it gives no data with no further sleep
C19_FloodSingleRetry ==
  rq.out # Pending =>
    LET a == rq.answers
        o == rq.out
    IN /\ o.http \in {1, 2}
       /\ (o.http = 2) <=> (a[1] = "flood403")
       /\ o.result \in {"data", "none", "raise"}
       /\ a[1] = "flood403" =>
            /\ Head(o.sleeps) = 3
            /\ o.result = Exchange(a[2], TRUE)
            /\ (a[2] = "ok") <=> (o.result = "data")
            /\ a[2] = "flood403" => (o.result = "none" /\ o.sleeps = << 3 >>)
       /\ a[1] # "flood403" => (3 \notin { o.sleeps[i] : i \in 1..Len(o.sleeps) })

\* a request whose retry is flooded too has returned
C19_Witness ==
  /\ rq.out # Pending
  /\ rq.answers[1] = "flood403"
  /\ rq.answers[2] = "flood403"
  /\ rq.out.http = 2
  /\ rq.out.result = "none"

(* --------------------- the program left to run ------------------------- *)
\* the steps of the program itself: nobody kills or interrupts the process
RunNext ==
  \/ Menu
  \/ Backfill
  \/ LoopFetch
  \/ LoopIter
  \/ LoopExcept
  \/ PspEntry
  \/ PspHasComments
  \/ PspBody
  \/ PspLinks
  \/ PspAfterSend
  \/ PspReply
  \/ SsrEntry
  \/ SsrTry
  \/ SsrReact
  \/ SsrFloodWait
  \/ SsrGeneric
  \/ SsrOuterExcept
  \/ SaveOpen
  \/ SaveDump
  \/ Exit
  \/ Start

\* the event loop runs the single task whenever it can take a step: every
\* await of the program (sleep, HTTP exchange, client call) completes
FairSpec == Init /\ [][RunNext]_vars /\ WF_vars(RunNext)

\* the attempts range(max_retries) gives: none when max_retries is missing
RetryBudget == IF cfg.max_retries = None THEN 0 ELSE cfg.max_retries

\* C20: a send never makes more than max_retries calls of
\* send_paid_reaction, whatever mix of FloodWait and other errors the client
\* answers with, and every send that has started returns
C20_SenderTerminatesWithinBudget ==
  /\ [](Cardinality(ReactCalls) <= RetryBudget)
  /\ (pc \in SsrPcs) ~> (pc = "ssr_ret")

\* a send has returned after a client that answered every call of the
\* primitive with FloodWait used up all the attempts
C20_Witness ==
  /\ pc = "ssr_ret"
  /\ ret = FALSE
  /\ cfg.max_retries = MaxRetries
  /\ Len(calls) = MaxRetries
  /\ \A i \in 1..Len(calls) : calls[i] = Call("react", "flood")

(* --------------- monitoring with one post that keeps failing ------------ *)
\* the post whose handling may fail: the oldest one of the thread
Poison == Thread[Len(Thread)].post_id

\* a configuration with reply templates: the reply itself cannot fail
PoisonInit ==
  /\ Init
  /\ cfg.reply_templates > 0

\* start(): monitoring is chosen
PoisonMenu ==
  /\ Menu
  /\ pc' = "loop_fetch"

\* get_thread_posts answers every cycle with all the pages from start_page
PoisonFetch ==
  /\ LoopFetch
  /\ pc' = "loop_iter"
  /\ posts' = Pages(start_page, NumPages)

\* the comment query raises for the failing post only
PoisonHasComments ==
  /\ PspHasComments
  /\ pc' = "psp_exc" => post.post_id = Poison

\* create_comment does not raise
PoisonReply ==
  /\ PspReply
  /\ pc' # "psp_exc"

\* the ledger file is always written
PoisonSaveOpen ==
  /\ SaveOpen
  /\ pc' = "save_dump"

PoisonSaveDump ==
  /\ SaveDump
  /\ pc' = "psp_ret"

PoisonNext ==
  \/ PoisonMenu
  \/ PoisonFetch
  \/ LoopIter
  \/ LoopExcept
  \/ PspEntry
  \/ PoisonHasComments
  \/ PspBody
  \/ PspLinks
  \/ PspAfterSend
  \/ PoisonReply
  \/ SsrEntry
  \/ SsrTry
  \/ SsrReact
  \/ SsrFloodWait
  \/ SsrGeneric
  \/ SsrOuterExcept
  \/ PoisonSaveOpen
  \/ PoisonSaveDump

\* the event loop runs the single task whenever it can take a step
PoisonSpec == PoisonInit /\ [][PoisonNext]_vars /\ WF_vars(PoisonNext)

\* C12: when only the handling of one post fails, every other post the
\* forum returned in a cycle is eventually marked processed
C12_OtherPostsEventuallyMarked ==
  \A id \in Ids \ {Poison} :
    (pc = "loop_iter" /\ id \in PostIds(posts)) ~> (id \in processed_posts)

\* C21: within one run of the process, a post for which the sender was
\* invoked in an earlier handler run (an earlier polling cycle) gets no
\* further send and no further comment
C21_DispatchedInOneCycleOnly ==
  post.post_id \in dispatched => (nSend = 0 /\ nComment = 0)

====
